---- MODULE Spec2Model ----
(***************************************************************************)
(* A model of nanotube's host delivery actor (pkg/target/host.go) and of   *)
(* its ingest listeners (cmd/nanotube listen code).                        *)
(*                                                                         *)
(* The host part has two tasks, the sender (Host.Stream) and the periodic  *)
(* flusher (Host.Flush), that share the connection cell Host.Conn behind   *)
(* Conn.Mux.  The listener part has the TCP acceptor, one reader per       *)
(* accepted connection, the UDP reader and the goroutine that closes the   *)
(* main queue.                                                             *)
(***************************************************************************)
EXTENDS Integers, Sequences, FiniteSets, TLC

(***************************************************************************)
(* Bounds of the model.                                                    *)
(***************************************************************************)
\* number of Push calls made by the dispatching workers
MaxPush == 4
\* mainCfg.HostQueueSize: capacity of Host.Ch
HostQueueSize == 2
\* mainCfg.TCPOutBufSize, counted in records
BufSize == 1
\* number of times the downstream host goes away
MaxDowns == 1
\* attemptCount is only compared with 1; it is counted up to this value
MaxAttemptCount == 2

\* cfg.MainQueueSize: capacity of the main queue
MainQueueSize == 1
\* number of TCP connections the clients open
MaxConns == 2
\* number of lines the TCP clients send, all connections together
MaxTCPLines == 2
\* number of Accept calls that fail while the listener is open
MaxAcceptErrs == 1
\* number of UDP datagrams received
MaxDgrams == 1
\* length of a UDP datagram in bytes
MaxDgramLen == 3

(***************************************************************************)
(* uint32 values are pairs <<hi, lo>> of 16-bit limbs, so that the         *)
(* arithmetic of ensureConnection wraps exactly as Go's uint32 does.       *)
(***************************************************************************)
Limb == 65536

U32(hi, lo) == <<hi, lo>>

U32Zero == U32(0, 0)

U32Lt(a, b) == a[1] < b[1] \/ (a[1] = b[1] /\ a[2] < b[2])

U32Le(a, b) == ~U32Lt(b, a)

\* w*2 + d modulo 2^32
U32DoublePlus(w, d) ==
    LET lo == 2 * w[2] + d[2]
        hi == 2 * w[1] + d[1] + (lo \div Limb)
    IN  U32(hi % Limb, lo % Limb)

VARIABLES
    \* ---- configuration and host fields
    cfg,                       \* conf.Main as read by NewHost
    MaxReconnectPeriodMs,      \* Host.MaxReconnectPeriodMs
    ReconnectPeriodDeltaMs,    \* Host.ReconnectPeriodDeltaMs
    TCPOutBufFlushPeriodSec,   \* Host.TCPOutBufFlushPeriodSec
    TCPOutConnectionRefreshPeriodSec,
    \* ---- host state
    Ch,                        \* Host.Ch, the host queue
    chClosed,                  \* Host.Ch has been closed
    Available,                 \* Host.Available
    Conn,                      \* Host.Conn: [Conn, W]
    mux,                       \* holder of Host.Conn.Mux
    stop,                      \* Host.stop has been closed
    wgDone,                    \* number of wg.Done() calls made by Stream
    \* ---- per task (sender, flusher)
    pc,
    ret,                       \* where ensureConnection returns to
    reconnectWait,
    attemptCount,
    r,                         \* the record the sender is processing
    \* ---- counters
    outRecs,
    throttled,
    stateChanges,
    oldConnectionRefresh,
    \* ---- environment
    hostUp,                    \* the downstream host accepts connections
    downs,
    \* ---- history
    pushed,                    \* number of Push calls
    enqueued,                  \* records accepted into Ch, in order
    dequeued,                  \* number of records taken by the sender
    written,                   \* records written without error, in order
    writeErrs,                 \* number of writes that returned an error
    flushErrs,                 \* number of Flush calls that returned an error
    slept,                     \* the wait last slept in the current reconnect run
    edges                      \* number of value changes of Available

    \* ---- listeners: configuration
VARIABLES
    listenTCP,                 \* cfg.ListenTCP != ""
    listenUDP,                 \* cfg.ListenUDP != ""
    \* ---- listeners: shared state
    queue,                     \* the main queue
    queueClosed,               \* number of close(queue) calls
    term,                      \* the stop channel has been closed
    connWG,                    \* Listen's connWG
    wg,                        \* acceptAndListenTCP's wg
    closerPc,                  \* the goroutine of Listen that closes the queue
    \* ---- TCP
    acceptorPc,                \* acceptAndListenTCP
    acceptG,                   \* the goroutine calling l.Accept()
    listenerClosed,            \* l.Close() was called
    reader,                    \* readFromConnectionTCP, per connection
    \* ---- UDP
    udpPc,                     \* listenUDP's read loop
    udpConnClosed,             \* conn.Close() was called on the UDP socket
    dgram,                     \* the datagram being processed
    lines,                     \* bytes.Split of it
    lineIdx,                   \* the loop variable i (from 1)
    \* ---- counters
    InRecs,
    ThrottledRecs,
    ActiveTCPConnections,
    \* ---- history
    offered,                   \* number of sendToMainQ calls
    consumed,                  \* number of lines taken by the workers
    sentOnClosed,              \* a send on the closed main queue happened
    accepted,                  \* number of connections Accept returned
    acceptErrs,                \* number of failed Accept calls, listener open
    tcpLines,                  \* number of lines read from TCP connections
    dgrams,                    \* number of datagrams read
    udpOffered                 \* lines of the current datagram handed to sendToMainQ

listenVars == <<listenTCP, listenUDP, queue, queueClosed, term, connWG, wg,
                closerPc, acceptorPc, acceptG, listenerClosed, reader,
                udpPc, udpConnClosed, dgram, udpOffered, lines, lineIdx,
                InRecs, ThrottledRecs, ActiveTCPConnections,
                offered, consumed, sentOnClosed, accepted, acceptErrs,
                tcpLines, dgrams>>

hostVars == <<cfg, MaxReconnectPeriodMs, ReconnectPeriodDeltaMs,
              TCPOutBufFlushPeriodSec, TCPOutConnectionRefreshPeriodSec,
              Ch, chClosed, Available, Conn, mux, stop, wgDone,
              pc, ret, reconnectWait, attemptCount, r,
              outRecs, throttled, stateChanges, oldConnectionRefresh,
              hostUp, downs, pushed, enqueued, dequeued, written, writeErrs, flushErrs,
              slept, edges>>

vars == <<hostVars, listenVars>>

Tasks == {"sender", "flusher"}

\* a *bufio.Writer: some = FALSE is the nil pointer; n = Buffered();
\* err is bufio's sticky error
NilWriter == [some |-> FALSE, n |-> 0, err |-> FALSE]

NilConnection == [Conn |-> "nil", W |-> NilWriter]

\* Connection.New storing the socket without making a writer for it
ConnectionNewSocketOnly == [Conn |-> "open", W |-> NilWriter]

(***************************************************************************)
(* Connection.New                                                          *)
(***************************************************************************)
ConnectionNew == [Conn |-> "open", W |-> [some |-> TRUE, n |-> 0, err |-> FALSE]]

(***************************************************************************)
(* Configurations.                                                         *)
(***************************************************************************)
Cfgs ==
    [MaxHostReconnectPeriodMs : {U32Zero, U32(0, 1000)},
     HostReconnectPeriodDeltaMs : {U32(0, 100)},
     TCPOutBufFlushPeriodSec : {0, 1},
     TCPOutConnectionRefreshPeriodSec : {0, 1}]

\* values of the two reconnect fields of a Host built as a struct literal
U32Samples == {U32Zero, U32(0, 1000), U32(49152, 0), U32(65535, 65535)}

InitHostState ==
    /\ Ch = <<>>
    /\ chClosed = FALSE
    /\ Available = TRUE
    /\ Conn = NilConnection
    /\ mux = "free"
    /\ stop = FALSE
    /\ wgDone = 0
    /\ pc = [t \in Tasks |-> IF t = "sender" THEN "start" ELSE "off"]
    /\ ret = [t \in Tasks |-> "none"]
    /\ reconnectWait = [t \in Tasks |-> U32Zero]
    /\ attemptCount = [t \in Tasks |-> 1]
    /\ r = 0
    /\ outRecs = 0
    /\ throttled = 0
    /\ stateChanges = 0
    /\ oldConnectionRefresh = 0
    /\ hostUp \in BOOLEAN
    /\ downs = 0
    /\ pushed = 0
    /\ enqueued = <<>>
    /\ dequeued = 0
    /\ written = <<>>
    /\ writeErrs = 0
    /\ flushErrs = 0
    /\ slept = [t \in Tasks |-> U32Zero]
    /\ edges = 0

(***************************************************************************)
(* NewHost                                                                 *)
(***************************************************************************)
NewHost ==
    /\ cfg \in Cfgs
    /\ MaxReconnectPeriodMs = cfg.MaxHostReconnectPeriodMs
    /\ ReconnectPeriodDeltaMs = cfg.MaxHostReconnectPeriodMs
    /\ TCPOutBufFlushPeriodSec = cfg.TCPOutBufFlushPeriodSec
    /\ TCPOutConnectionRefreshPeriodSec = cfg.TCPOutConnectionRefreshPeriodSec
    /\ InitHostState

\* a Host whose exported reconnect fields are set directly
HostLiteral ==
    /\ MaxReconnectPeriodMs \in U32Samples
    /\ ReconnectPeriodDeltaMs \in U32Samples
    /\ TCPOutBufFlushPeriodSec = 1
    /\ TCPOutConnectionRefreshPeriodSec = 1
    /\ cfg = [MaxHostReconnectPeriodMs |-> MaxReconnectPeriodMs,
              HostReconnectPeriodDeltaMs |-> ReconnectPeriodDeltaMs,
              TCPOutBufFlushPeriodSec |-> 1,
              TCPOutConnectionRefreshPeriodSec |-> 1]
    /\ InitHostState

cfgVars == <<cfg, MaxReconnectPeriodMs, ReconnectPeriodDeltaMs,
             TCPOutBufFlushPeriodSec, TCPOutConnectionRefreshPeriodSec>>

\* Push with a plain channel send: it waits for room in the queue
PushBlocking ==
    /\ ~chClosed
    /\ pushed < MaxPush
    /\ Len(Ch) < HostQueueSize
    /\ pushed' = pushed + 1
    /\ Ch' = Append(Ch, pushed + 1)
    /\ enqueued' = Append(enqueued, pushed + 1)
    /\ UNCHANGED throttled
    /\ UNCHANGED <<listenVars, cfgVars, chClosed, Available, Conn, mux, stop, wgDone,
                   pc, ret, reconnectWait, attemptCount, r,
                   outRecs, stateChanges, oldConnectionRefresh,
                   hostUp, downs, dequeued, written, writeErrs, flushErrs, slept, edges>>

(***************************************************************************)
(* Host.Push                                                               *)
(***************************************************************************)
Push ==
    /\ ~chClosed
    /\ pushed < MaxPush
    /\ pushed' = pushed + 1
    /\ IF Len(Ch) < HostQueueSize
         THEN /\ Ch' = Append(Ch, pushed + 1)
              /\ enqueued' = Append(enqueued, pushed + 1)
              /\ UNCHANGED throttled
         ELSE /\ throttled' = throttled + 1
              /\ UNCHANGED <<Ch, enqueued>>
    /\ UNCHANGED <<listenVars, cfgVars, chClosed, Available, Conn, mux, stop, wgDone,
                   pc, ret, reconnectWait, attemptCount, r,
                   outRecs, stateChanges, oldConnectionRefresh,
                   hostUp, downs, dequeued, written, writeErrs, flushErrs, slept, edges>>

(***************************************************************************)
(* The environment of the host: the downstream endpoint and the queue's    *)
(* owner.                                                                  *)
(***************************************************************************)
HostGoesDown ==
    /\ hostUp
    /\ downs < MaxDowns
    /\ hostUp' = FALSE
    /\ downs' = downs + 1
    /\ UNCHANGED <<listenVars, cfgVars, Ch, chClosed, Available, Conn, mux, stop, wgDone,
                   pc, ret, reconnectWait, attemptCount, r,
                   outRecs, throttled, stateChanges, oldConnectionRefresh,
                   pushed, enqueued, dequeued, written, writeErrs, flushErrs, slept, edges>>

HostComesUp ==
    /\ ~hostUp
    /\ hostUp' = TRUE
    /\ UNCHANGED <<listenVars, cfgVars, Ch, chClosed, Available, Conn, mux, stop, wgDone,
                   pc, ret, reconnectWait, attemptCount, r,
                   outRecs, throttled, stateChanges, oldConnectionRefresh,
                   downs, pushed, enqueued, dequeued, written, writeErrs, flushErrs, slept, edges>>

\* close(h.Ch), done by the owner of the hosts once the workers have exited
CloseHostQueue ==
    /\ ~chClosed
    /\ chClosed' = TRUE
    /\ UNCHANGED <<listenVars, cfgVars, Ch, Available, Conn, mux, stop, wgDone,
                   pc, ret, reconnectWait, attemptCount, r,
                   outRecs, throttled, stateChanges, oldConnectionRefresh,
                   hostUp, downs, pushed, enqueued, dequeued, written, writeErrs, flushErrs, slept, edges>>

\* the outcomes of a write on the socket of the connection cell: a socket
\* closed on this side refuses it, an open one takes it when the peer is
\* there and may or may not take it when the peer is gone
SocketWriteOutcomes ==
    IF Conn.Conn = "open" THEN (IF hostUp THEN {TRUE} ELSE BOOLEAN) ELSE {FALSE}

\* bufio.Writer.Write of one record
BufioWrite(w, sockOk) ==
    IF w.err THEN [ok |-> FALSE, W |-> w]
    ELSE IF w.n < BufSize THEN [ok |-> TRUE, W |-> [w EXCEPT !.n = @ + 1]]
    ELSE IF sockOk THEN [ok |-> TRUE, W |-> [w EXCEPT !.n = 1]]
    ELSE [ok |-> FALSE, W |-> [w EXCEPT !.err = TRUE]]

\* bufio.Writer.Flush
BufioFlush(w, sockOk) ==
    IF w.err THEN [ok |-> FALSE, W |-> w]
    ELSE IF w.n = 0 THEN [ok |-> TRUE, W |-> w]
    ELSE IF sockOk THEN [ok |-> TRUE, W |-> [w EXCEPT !.n = 0]]
    ELSE [ok |-> FALSE, W |-> [w EXCEPT !.err = TRUE]]

EdgeCount(a, b) == IF a # b THEN 1 ELSE 0

(***************************************************************************)
(* Host.Stream: start, the range loop over h.Ch, and the exit.             *)
(***************************************************************************)
StreamStart ==
    /\ pc["sender"] = "start"
    /\ pc' = [pc EXCEPT !["sender"] = "range",
                        !["flusher"] = IF TCPOutBufFlushPeriodSec # 0
                                         THEN "tick" ELSE "off"]
    /\ UNCHANGED <<listenVars, cfgVars, Ch, chClosed, Available, Conn, mux, stop, wgDone,
                   ret, reconnectWait, attemptCount, r,
                   outRecs, throttled, stateChanges, oldConnectionRefresh,
                   hostUp, downs, pushed, enqueued, dequeued, written, writeErrs, flushErrs, slept, edges>>

\* the range loop taking the newest record of the queue first
StreamRangeNewestFirst ==
    /\ pc["sender"] = "range"
    /\ IF Ch # <<>>
         THEN /\ r' = Ch[Len(Ch)]
              /\ Ch' = SubSeq(Ch, 1, Len(Ch) - 1)
              /\ dequeued' = dequeued + 1
              /\ pc' = [pc EXCEPT !["sender"] = "tts_lock"]
         ELSE /\ chClosed
              /\ pc' = [pc EXCEPT !["sender"] = "fin_lock"]
              /\ UNCHANGED <<r, Ch, dequeued>>
    /\ UNCHANGED <<listenVars, cfgVars, chClosed, Available, Conn, mux, stop, wgDone,
                   ret, reconnectWait, attemptCount,
                   outRecs, throttled, stateChanges, oldConnectionRefresh,
                   hostUp, downs, pushed, enqueued, written, writeErrs, flushErrs, slept, edges>>

StreamRange ==
    /\ pc["sender"] = "range"
    /\ IF Ch # <<>>
         THEN /\ r' = Head(Ch)
              /\ Ch' = Tail(Ch)
              /\ dequeued' = dequeued + 1
              /\ pc' = [pc EXCEPT !["sender"] = "tts_lock"]
         ELSE /\ chClosed
              /\ pc' = [pc EXCEPT !["sender"] = "fin_lock"]
              /\ UNCHANGED <<r, Ch, dequeued>>
    /\ UNCHANGED <<listenVars, cfgVars, chClosed, Available, Conn, mux, stop, wgDone,
                   ret, reconnectWait, attemptCount,
                   outRecs, throttled, stateChanges, oldConnectionRefresh,
                   hostUp, downs, pushed, enqueued, written, writeErrs, flushErrs, slept, edges>>

\* Lock() returning at once whoever holds the mutex
MuxLockNoWait(t) ==
    /\ pc[t] \in {"tts_lock", "fin_lock", "fl_lock"}
    /\ mux' = t
    /\ pc' = [pc EXCEPT ![t] = IF pc[t] = "tts_lock" THEN "tts_loop" ELSE "tf_start"]
    /\ UNCHANGED <<listenVars, cfgVars, Ch, chClosed, Available, Conn, stop, wgDone,
                   ret, reconnectWait, attemptCount, r,
                   outRecs, throttled, stateChanges, oldConnectionRefresh,
                   hostUp, downs, pushed, enqueued, dequeued, written, writeErrs, flushErrs, slept, edges>>

(***************************************************************************)
(* h.Conn.Mux.Lock() in tryToSend, in Stream's tail and in Flush.          *)
(***************************************************************************)
MuxLock(t) ==
    /\ pc[t] \in {"tts_lock", "fin_lock", "fl_lock"}
    /\ mux = "free"
    /\ mux' = t
    /\ pc' = [pc EXCEPT ![t] = IF pc[t] = "tts_lock" THEN "tts_loop" ELSE "tf_start"]
    /\ UNCHANGED <<listenVars, cfgVars, Ch, chClosed, Available, Conn, stop, wgDone,
                   ret, reconnectWait, attemptCount, r,
                   outRecs, throttled, stateChanges, oldConnectionRefresh,
                   hostUp, downs, pushed, enqueued, dequeued, written, writeErrs, flushErrs, slept, edges>>

(***************************************************************************)
(* Host.ensureConnection.  Entering it with no connection leaves the task  *)
(* in time.Sleep(reconnectWait) with reconnectWait = 0, attemptCount = 1;  *)
(* with a connection it returns at once to `to`.                           *)
(***************************************************************************)
EnsureEnter(t, c, to) ==
    IF c = "nil"
      THEN /\ pc' = [pc EXCEPT ![t] = "sleep"]
           /\ ret' = [ret EXCEPT ![t] = to]
           /\ reconnectWait' = [reconnectWait EXCEPT ![t] = U32Zero]
           /\ attemptCount' = [attemptCount EXCEPT ![t] = 1]
      ELSE /\ pc' = [pc EXCEPT ![t] = to]
           /\ UNCHANGED <<ret, reconnectWait, attemptCount>>

\* lines 241-246: the wait of the next iteration
NextWait(w) ==
    LET w1 == IF U32Lt(w, MaxReconnectPeriodMs)
                THEN U32DoublePlus(w, ReconnectPeriodDeltaMs) ELSE w
    IN  IF U32Le(MaxReconnectPeriodMs, w1) THEN MaxReconnectPeriodMs ELSE w1

\* Connect leaving Available alone when the dial fails
ConnectNoCAS(count, ok) ==
    IF ~ok
      THEN /\ Conn' = [Conn EXCEPT !.Conn = "nil"]
           /\ UNCHANGED <<Available, stateChanges>>
      ELSE /\ Conn' = ConnectionNew
           /\ Available' = TRUE
           /\ UNCHANGED stateChanges

\* Connect not storing the connection it dialed
ConnectLosesConn(count, ok) ==
    IF ~ok
      THEN /\ Conn' = [Conn EXCEPT !.Conn = "nil"]
           /\ IF count = 1 /\ Available
                THEN /\ Available' = FALSE
                     /\ stateChanges' = stateChanges + 1
                ELSE UNCHANGED <<Available, stateChanges>>
      ELSE /\ Available' = TRUE
           /\ UNCHANGED <<Conn, stateChanges>>

(***************************************************************************)
(* Host.Connect, with the outcome ok of getConnectionToHost.               *)
(***************************************************************************)
Connect(count, ok) ==
    IF ~ok
      THEN /\ Conn' = [Conn EXCEPT !.Conn = "nil"]
           /\ IF count = 1 /\ Available
                THEN /\ Available' = FALSE
                     /\ stateChanges' = stateChanges + 1
                ELSE UNCHANGED <<Available, stateChanges>>
      ELSE /\ Conn' = ConnectionNew
           /\ Available' = TRUE
           /\ UNCHANGED stateChanges

\* line 240: time.Sleep(reconnectWait) returns
EnsureSleep(t) ==
    /\ pc[t] = "sleep"
    /\ pc' = [pc EXCEPT ![t] = "connect"]
    /\ slept' = [slept EXCEPT ![t] = reconnectWait[t]]
    /\ UNCHANGED <<listenVars, cfgVars, Ch, chClosed, Available, Conn, mux, stop, wgDone,
                   ret, reconnectWait, attemptCount, r,
                   outRecs, throttled, stateChanges, oldConnectionRefresh,
                   hostUp, downs, pushed, enqueued, dequeued, written,
                   writeErrs, flushErrs, edges>>

\* lines 241-249 and the loop condition: the wait is updated, Connect is
\* called with the outcome of the dial, attemptCount is incremented; when
\* the loop ends its locals are gone
EnsureIteration(t) ==
    /\ pc[t] = "connect"
    /\ \E ok \in {hostUp} :
         /\ Connect(attemptCount[t], ok)
         /\ IF Conn'.Conn # "nil"
              THEN /\ pc' = [pc EXCEPT ![t] = ret[t]]
                   /\ ret' = [ret EXCEPT ![t] = "none"]
                   /\ reconnectWait' = [reconnectWait EXCEPT ![t] = U32Zero]
                   /\ attemptCount' = [attemptCount EXCEPT ![t] = 1]
                   /\ slept' = [slept EXCEPT ![t] = U32Zero]
              ELSE /\ pc' = [pc EXCEPT ![t] = "sleep"]
                   /\ reconnectWait' = [reconnectWait EXCEPT
                                          ![t] = NextWait(reconnectWait[t])]
                   /\ attemptCount' = [attemptCount EXCEPT
                                         ![t] = IF @ < MaxAttemptCount THEN @ + 1 ELSE @]
                   /\ UNCHANGED <<ret, slept>>
    /\ edges' = edges + EdgeCount(Available, Available')
    /\ UNCHANGED <<listenVars, cfgVars, Ch, chClosed, mux, stop, wgDone, r,
                   outRecs, throttled, oldConnectionRefresh,
                   hostUp, downs, pushed, enqueued, dequeued, written,
                   writeErrs, flushErrs>>

(***************************************************************************)
(* Host.keepConnectionFresh, called with the connection present; old is    *)
(* the outcome of time.Since(LastConnUse) > refresh period.  It returns to *)
(* `to` when ensureConnection returns.                                     *)
(***************************************************************************)
KeepConnectionFresh(t, old, to) ==
    IF TCPOutConnectionRefreshPeriodSec # 0 /\ Conn.Conn # "nil" /\ old
      THEN /\ oldConnectionRefresh' = oldConnectionRefresh + 1
           /\ Conn' = [Conn EXCEPT !.Conn = "closed"]
           /\ EnsureEnter(t, "closed", to)
      ELSE /\ pc' = [pc EXCEPT ![t] = to]
           /\ UNCHANGED <<oldConnectionRefresh, Conn, ret, reconnectWait, attemptCount>>

(***************************************************************************)
(* Host.tryToSend.  The top of the retry loop calls ensureConnection, then *)
(* keepConnectionFresh, then sets the deadline and writes.                 *)
(***************************************************************************)
TryToSendEnsure ==
    /\ pc["sender"] = "tts_loop"
    /\ EnsureEnter("sender", Conn.Conn, "tts_fresh")
    /\ UNCHANGED <<listenVars, cfgVars, Ch, chClosed, Available, Conn, mux, stop, wgDone, r,
                   outRecs, throttled, stateChanges, oldConnectionRefresh,
                   hostUp, downs, pushed, enqueued, dequeued, written, writeErrs, flushErrs, slept, edges>>

TryToSendFresh ==
    /\ pc["sender"] = "tts_fresh"
    /\ \E old \in BOOLEAN : KeepConnectionFresh("sender", old, "tts_write")
    /\ UNCHANGED <<listenVars, cfgVars, Ch, chClosed, Available, mux, stop, wgDone, r,
                   outRecs, throttled, stateChanges,
                   hostUp, downs, pushed, enqueued, dequeued, written, writeErrs, flushErrs, slept, edges>>

\* lines 164-169 and the deferred Unlock: the write returned no error
WriteSucceeded(w) ==
    /\ Conn' = [Conn EXCEPT !.W = w]
    /\ outRecs' = outRecs + 1
    /\ written' = Append(written, r)
    /\ r' = 0
    /\ mux' = "free"
    /\ pc' = [pc EXCEPT !["sender"] = "range"]
    /\ UNCHANGED writeErrs

\* the error path giving the record up instead of retrying it
WriteFailedGivesUp(w) ==
    /\ Conn' = [Conn EXCEPT !.Conn = "nil", !.W = w]
    /\ pc' = [pc EXCEPT !["sender"] = "range"]
    /\ writeErrs' = writeErrs + 1
    /\ r' = 0
    /\ mux' = "free"
    /\ UNCHANGED <<outRecs, written>>

\* lines 172-179: the write returned an error
WriteFailed(w) ==
    /\ Conn' = [Conn EXCEPT !.Conn = "nil", !.W = w]
    /\ pc' = [pc EXCEPT !["sender"] = "tts_loop"]
    /\ writeErrs' = writeErrs + 1
    /\ UNCHANGED <<outRecs, written, r, mux>>

TryToSendWrite ==
    /\ pc["sender"] = "tts_write"
    /\ IF Conn.Conn = "nil" \/ ~Conn.W.some
         THEN \* nil dereference
              /\ pc' = [pc EXCEPT !["sender"] = "panic"]
              /\ UNCHANGED <<Conn, outRecs, written, writeErrs, r, mux>>
         ELSE \E sockOk \in SocketWriteOutcomes :
                LET res == BufioWrite(Conn.W, sockOk)
                IN  IF res.ok THEN WriteSucceeded(res.W) ELSE WriteFailed(res.W)
    /\ UNCHANGED <<listenVars, cfgVars, Ch, chClosed, Available, stop, wgDone, flushErrs,
                   ret, reconnectWait, attemptCount,
                   throttled, stateChanges, oldConnectionRefresh,
                   hostUp, downs, pushed, enqueued, dequeued, slept, edges>>

(***************************************************************************)
(* Host.tryToFlushIfNecessary, run by the flusher on a tick and by the     *)
(* sender once the queue is closed and drained.                            *)
(***************************************************************************)
\* the return of tryToFlushIfNecessary and what follows it in the caller:
\* Flush unlocks and waits for the next tick; Stream returns and its
\* deferred calls run, last registered first: the Unlock here, then the
\* function of lines 131-134
FlushReturn(t) ==
    /\ mux' = "free"
    /\ pc' = [pc EXCEPT ![t] = IF t = "sender" THEN "wg_done" ELSE "tick"]
    /\ UNCHANGED <<wgDone, stop>>

\* the deferred function closing h.stop before the final flush is made
StreamCloseStopEarly ==
    /\ pc["sender"] \in {"fin_lock", "close_stop"}
    /\ stop' = TRUE
    /\ pc' = [pc EXCEPT !["sender"] = IF pc["sender"] = "fin_lock" THEN "fin_lock"
                                                                  ELSE "done"]
    /\ pc["sender"] = "fin_lock" => ~stop
    /\ UNCHANGED <<listenVars, cfgVars, Ch, chClosed, Available, Conn, mux, wgDone,
                   ret, reconnectWait, attemptCount, r,
                   outRecs, throttled, stateChanges, oldConnectionRefresh,
                   hostUp, downs, pushed, enqueued, dequeued, written, writeErrs, flushErrs, slept, edges>>

\* line 132: wg.Done()
StreamWgDone ==
    /\ pc["sender"] = "wg_done"
    /\ wgDone' = wgDone + 1
    /\ pc' = [pc EXCEPT !["sender"] = "close_stop"]
    /\ UNCHANGED <<listenVars, cfgVars, Ch, chClosed, Available, Conn, mux, stop,
                   ret, reconnectWait, attemptCount, r,
                   outRecs, throttled, stateChanges, oldConnectionRefresh,
                   hostUp, downs, pushed, enqueued, dequeued, written, writeErrs, flushErrs, slept, edges>>

\* line 133: close(h.stop)
StreamCloseStop ==
    /\ pc["sender"] = "close_stop"
    /\ stop' = TRUE
    /\ pc' = [pc EXCEPT !["sender"] = "done"]
    /\ UNCHANGED <<listenVars, cfgVars, Ch, chClosed, Available, Conn, mux, wgDone,
                   ret, reconnectWait, attemptCount, r,
                   outRecs, throttled, stateChanges, oldConnectionRefresh,
                   hostUp, downs, pushed, enqueued, dequeued, written, writeErrs, flushErrs, slept, edges>>

TryToFlushStart(t) ==
    /\ pc[t] = "tf_start"
    /\ IF Conn.W.some /\ Conn.W.n # 0
         THEN /\ IF Conn.Conn = "nil"
                   THEN /\ EnsureEnter(t, Conn.Conn, "tf_flush")
                        /\ UNCHANGED <<Conn, oldConnectionRefresh>>
                   ELSE \E old \in BOOLEAN : KeepConnectionFresh(t, old, "tf_flush")
              /\ UNCHANGED <<mux, wgDone, stop>>
         ELSE /\ FlushReturn(t)
              /\ UNCHANGED <<Conn, oldConnectionRefresh, ret, reconnectWait, attemptCount>>
    /\ UNCHANGED <<listenVars, cfgVars, Ch, chClosed, Available, r,
                   outRecs, throttled, stateChanges,
                   hostUp, downs, pushed, enqueued, dequeued, written, writeErrs, flushErrs, slept, edges>>

\* a failed Flush dropping the socket and keeping the writer
FlushOutcomeKeepsWriter(res) ==
    IF res.ok THEN [Conn EXCEPT !.W = res.W]
              ELSE [Conn EXCEPT !.Conn = "nil", !.W = res.W]

\* lines 209-213: the connection cell after h.Conn.W.Flush() returned
FlushOutcome(res) ==
    IF res.ok THEN [Conn EXCEPT !.W = res.W] ELSE NilConnection

\* lines 208-214
TryToFlushFlush(t) ==
    /\ pc[t] = "tf_flush"
    /\ IF ~Conn.W.some
         THEN \* nil dereference
              /\ pc' = [pc EXCEPT ![t] = "panic"]
              /\ UNCHANGED <<Conn, mux, wgDone, stop, flushErrs>>
         ELSE \E sockOk \in SocketWriteOutcomes :
                LET res == BufioFlush(Conn.W, sockOk)
                IN  /\ Conn' = FlushOutcome(res)
                    /\ flushErrs' = flushErrs + (IF res.ok THEN 0 ELSE 1)
                    /\ FlushReturn(t)
    /\ UNCHANGED <<listenVars, cfgVars, Ch, chClosed, Available, r,
                   ret, reconnectWait, attemptCount,
                   outRecs, throttled, stateChanges, oldConnectionRefresh,
                   hostUp, downs, pushed, enqueued, dequeued, written, writeErrs, slept, edges>>

(***************************************************************************)
(* Host.Flush: the select on h.stop and the ticker.                        *)
(***************************************************************************)
FlushTick ==
    /\ pc["flusher"] = "tick"
    /\ pc' = [pc EXCEPT !["flusher"] = "fl_lock"]
    /\ UNCHANGED <<listenVars, cfgVars, Ch, chClosed, Available, Conn, mux, stop, wgDone,
                   ret, reconnectWait, attemptCount, r,
                   outRecs, throttled, stateChanges, oldConnectionRefresh,
                   hostUp, downs, pushed, enqueued, dequeued, written, writeErrs, flushErrs, slept, edges>>

FlushStop ==
    /\ pc["flusher"] = "tick"
    /\ stop
    /\ pc' = [pc EXCEPT !["flusher"] = "done"]
    /\ UNCHANGED <<listenVars, cfgVars, Ch, chClosed, Available, Conn, mux, stop, wgDone,
                   ret, reconnectWait, attemptCount, r,
                   outRecs, throttled, stateChanges, oldConnectionRefresh,
                   hostUp, downs, pushed, enqueued, dequeued, written, writeErrs, flushErrs, slept, edges>>

(***************************************************************************)
(* The listeners.                                                          *)
(***************************************************************************)
Conns == 1 .. MaxConns

LF == "\n"

Bytes == {"x", LF}

\* the contents of buf[:nRead]
Datagrams == UNION {[1 .. n -> Bytes] : n \in 0 .. MaxDgramLen}

\* a line as bufio.Scanner hands it over
TCPLine == <<"x">>

\* bytes.Split(b, []byte{'\n'})
RECURSIVE Split(_)
Split(b) ==
    IF \A i \in 1 .. Len(b) : b[i] # LF
      THEN <<b>>
      ELSE LET k == CHOOSE i \in 1 .. Len(b) :
                        b[i] = LF /\ \A j \in 1 .. (i - 1) : b[j] # LF
           IN  <<SubSeq(b, 1, k - 1)>> \o Split(SubSeq(b, k + 1, Len(b)))

(***************************************************************************)
(* Listen: the state once it has returned.                                 *)
(***************************************************************************)
Listen ==
    /\ listenTCP \in BOOLEAN
    /\ listenUDP \in BOOLEAN
    /\ queue = <<>>
    /\ queueClosed = 0
    /\ term = FALSE
    /\ connWG = (IF listenTCP THEN 1 ELSE 0) + (IF listenUDP THEN 1 ELSE 0)
    /\ wg = 0
    /\ closerPc = "wait"
    /\ acceptorPc = IF listenTCP THEN "select" ELSE "off"
    /\ acceptG = IF listenTCP THEN "accepting" ELSE "none"
    /\ listenerClosed = FALSE
    /\ reader = [c \in Conns |-> "none"]
    /\ udpPc = IF listenUDP THEN "read" ELSE "off"
    /\ udpConnClosed = FALSE
    /\ dgram = <<>>
    /\ lines = <<>>
    /\ lineIdx = 1
    /\ InRecs = 0
    /\ ThrottledRecs = 0
    /\ ActiveTCPConnections = 0
    /\ offered = 0
    /\ consumed = 0
    /\ sentOnClosed = FALSE
    /\ accepted = 0
    /\ acceptErrs = 0
    /\ tcpLines = 0
    /\ dgrams = 0
    /\ udpOffered = <<>>

\* sendToMainQ with a plain channel send: it waits for room in the queue
SendToMainQBlocking(rec) ==
    /\ Len(queue) < MainQueueSize
    /\ IF queueClosed > 0
         THEN /\ sentOnClosed' = TRUE
              /\ UNCHANGED <<queue, InRecs, ThrottledRecs, offered>>
         ELSE /\ offered' = offered + 1
              /\ queue' = Append(queue, rec)
              /\ InRecs' = InRecs + 1
              /\ UNCHANGED <<ThrottledRecs, sentOnClosed>>

(***************************************************************************)
(* sendToMainQ.  A send on a closed channel panics.                        *)
(***************************************************************************)
SendToMainQ(rec) ==
    IF queueClosed > 0
      THEN /\ sentOnClosed' = TRUE
           /\ UNCHANGED <<queue, InRecs, ThrottledRecs, offered>>
      ELSE /\ offered' = offered + 1
           /\ UNCHANGED sentOnClosed
           /\ IF Len(queue) < MainQueueSize
                THEN /\ queue' = Append(queue, rec)
                     /\ InRecs' = InRecs + 1
                     /\ UNCHANGED ThrottledRecs
                ELSE /\ ThrottledRecs' = ThrottledRecs + 1
                     /\ UNCHANGED <<queue, InRecs>>

\* the stop channel is closed
StopSignal ==
    /\ ~term
    /\ term' = TRUE
    /\ UNCHANGED <<hostVars, listenTCP, listenUDP, queue, queueClosed, connWG, wg,
                   closerPc, acceptorPc, acceptG, listenerClosed, reader,
                   udpPc, udpConnClosed, dgram, udpOffered, lines, lineIdx,
                   InRecs, ThrottledRecs, ActiveTCPConnections,
                   offered, consumed, sentOnClosed, accepted, acceptErrs,
                   tcpLines, dgrams>>

\* a worker takes a line from the main queue
WorkerReceive ==
    /\ queue # <<>>
    /\ queue' = Tail(queue)
    /\ consumed' = consumed + 1
    /\ UNCHANGED <<hostVars, listenTCP, listenUDP, queueClosed, term, connWG, wg,
                   closerPc, acceptorPc, acceptG, listenerClosed, reader,
                   udpPc, udpConnClosed, dgram, udpOffered, lines, lineIdx,
                   InRecs, ThrottledRecs, ActiveTCPConnections,
                   offered, sentOnClosed, accepted, acceptErrs,
                   tcpLines, dgrams>>

\* lines 58-62: the goroutine of Listen that closes the main queue
CloseQueue ==
    /\ closerPc = "wait"
    /\ connWG = 0
    /\ queueClosed' = queueClosed + 1
    /\ closerPc' = "done"
    /\ UNCHANGED <<hostVars, listenTCP, listenUDP, queue, term, connWG, wg,
                   acceptorPc, acceptG, listenerClosed, reader,
                   udpPc, udpConnClosed, dgram, udpOffered, lines, lineIdx,
                   InRecs, ThrottledRecs, ActiveTCPConnections,
                   offered, consumed, sentOnClosed, accepted, acceptErrs,
                   tcpLines, dgrams>>

(***************************************************************************)
(* acceptAndListenTCP: the goroutine of lines 75-86 that calls l.Accept(), *)
(* counts, and waits to hand the outcome to the select.                    *)
(***************************************************************************)
AcceptConn ==
    /\ acceptG = "accepting"
    /\ ~listenerClosed
    /\ accepted < MaxConns
    /\ acceptG' = "conn"
    /\ accepted' = accepted + 1
    /\ ActiveTCPConnections' = ActiveTCPConnections + 1
    /\ UNCHANGED <<hostVars, listenTCP, listenUDP, queue, queueClosed, term, connWG,
                   wg, closerPc, acceptorPc, listenerClosed, reader,
                   udpPc, udpConnClosed, dgram, udpOffered, lines, lineIdx,
                   InRecs, ThrottledRecs,
                   offered, consumed, sentOnClosed, acceptErrs,
                   tcpLines, dgrams>>

AcceptError ==
    /\ acceptG = "accepting"
    /\ listenerClosed \/ acceptErrs < MaxAcceptErrs
    /\ acceptG' = "err"
    /\ acceptErrs' = IF listenerClosed THEN acceptErrs ELSE acceptErrs + 1
    /\ ActiveTCPConnections' = ActiveTCPConnections + 1
    /\ UNCHANGED <<hostVars, listenTCP, listenUDP, queue, queueClosed, term, connWG,
                   wg, closerPc, acceptorPc, listenerClosed, reader,
                   udpPc, udpConnClosed, dgram, udpOffered, lines, lineIdx,
                   InRecs, ThrottledRecs,
                   offered, consumed, sentOnClosed, accepted,
                   tcpLines, dgrams>>

\* the acceptor leaving its loop without waiting for the readers
AcceptorTermNoWait ==
    /\ acceptorPc = "select"
    /\ term
    /\ listenerClosed' = TRUE
    /\ connWG' = connWG - 1
    /\ acceptorPc' = "done"
    /\ UNCHANGED <<hostVars, listenTCP, listenUDP, queue, queueClosed, term,
                   wg, closerPc, acceptG, reader,
                   udpPc, udpConnClosed, dgram, udpOffered, lines, lineIdx,
                   InRecs, ThrottledRecs, ActiveTCPConnections,
                   offered, consumed, sentOnClosed, accepted, acceptErrs,
                   tcpLines, dgrams>>

\* the select of lines 88-101, case <-term
AcceptorTerm ==
    /\ acceptorPc = "select"
    /\ term
    /\ listenerClosed' = TRUE
    /\ acceptorPc' = "wait"
    /\ UNCHANGED <<hostVars, listenTCP, listenUDP, queue, queueClosed, term, connWG,
                   wg, closerPc, acceptG, reader,
                   udpPc, udpConnClosed, dgram, udpOffered, lines, lineIdx,
                   InRecs, ThrottledRecs, ActiveTCPConnections,
                   offered, consumed, sentOnClosed, accepted, acceptErrs,
                   tcpLines, dgrams>>

\* case err := <-errCh; the next iteration starts a new Accept
AcceptorError ==
    /\ acceptorPc = "select"
    /\ acceptG = "err"
    /\ acceptG' = "accepting"
    /\ UNCHANGED <<hostVars, listenTCP, listenUDP, queue, queueClosed, term, connWG,
                   wg, closerPc, acceptorPc, listenerClosed, reader,
                   udpPc, udpConnClosed, dgram, udpOffered, lines, lineIdx,
                   InRecs, ThrottledRecs, ActiveTCPConnections,
                   offered, consumed, sentOnClosed, accepted, acceptErrs,
                   tcpLines, dgrams>>

\* case conn := <-connCh; the next iteration starts a new Accept
AcceptorConn ==
    /\ acceptorPc = "select"
    /\ acceptG = "conn"
    /\ wg' = wg + 1
    /\ LET c == CHOOSE i \in Conns :
                    reader[i] = "none" /\ \A j \in 1 .. (i - 1) : reader[j] # "none"
       IN  reader' = [reader EXCEPT ![c] = "run"]
    /\ acceptG' = "accepting"
    /\ UNCHANGED <<hostVars, listenTCP, listenUDP, queue, queueClosed, term, connWG,
                   closerPc, acceptorPc, listenerClosed,
                   udpPc, udpConnClosed, dgram, udpOffered, lines, lineIdx,
                   InRecs, ThrottledRecs, ActiveTCPConnections,
                   offered, consumed, sentOnClosed, accepted, acceptErrs,
                   tcpLines, dgrams>>

\* lines 104-106
AcceptorWait ==
    /\ acceptorPc = "wait"
    /\ wg = 0
    /\ connWG' = connWG - 1
    /\ acceptorPc' = "done"
    /\ UNCHANGED <<hostVars, listenTCP, listenUDP, queue, queueClosed, term,
                   wg, closerPc, acceptG, listenerClosed, reader,
                   udpPc, udpConnClosed, dgram, udpOffered, lines, lineIdx,
                   InRecs, ThrottledRecs, ActiveTCPConnections,
                   offered, consumed, sentOnClosed, accepted, acceptErrs,
                   tcpLines, dgrams>>

(***************************************************************************)
(* readFromConnectionTCP and scanForRecordsTCP, for connection c.          *)
(***************************************************************************)
\* scanin delivers a line
ReaderLine(c) ==
    /\ reader[c] = "run"
    /\ tcpLines < MaxTCPLines
    /\ tcpLines' = tcpLines + 1
    /\ SendToMainQ(TCPLine)
    /\ UNCHANGED <<hostVars, listenTCP, listenUDP, queueClosed, term, connWG, wg,
                   closerPc, acceptorPc, acceptG, listenerClosed, reader,
                   udpPc, udpConnClosed, dgram, udpOffered, lines, lineIdx,
                   ActiveTCPConnections, consumed, accepted, acceptErrs, dgrams>>

\* the deferred calls of readFromConnectionTCP
ReaderExit(c) ==
    /\ reader' = [reader EXCEPT ![c] = "done"]
    /\ ActiveTCPConnections' = ActiveTCPConnections - 1
    /\ wg' = wg - 1
    /\ UNCHANGED <<hostVars, listenTCP, listenUDP, queue, queueClosed, term, connWG,
                   closerPc, acceptorPc, acceptG, listenerClosed,
                   udpPc, udpConnClosed, dgram, udpOffered, lines, lineIdx,
                   InRecs, ThrottledRecs,
                   offered, consumed, sentOnClosed, accepted, acceptErrs,
                   tcpLines, dgrams>>

\* scanin is closed: end of input, idle deadline or read error
ReaderEOF(c) ==
    /\ reader[c] = "run"
    /\ ReaderExit(c)

\* case <-stop
ReaderStop(c) ==
    /\ reader[c] = "run"
    /\ term
    /\ ReaderExit(c)

(***************************************************************************)
(* listenUDP.                                                              *)
(***************************************************************************)
\* the loop over the lines going up to the last element of the split
LoopEndAll(ls) == Len(ls)

\* line 136: i < len(lines)-1, with i counted from 1
LoopEnd(ls) == Len(ls) - 1

\* lines 110-117
UDPStopper ==
    /\ listenUDP
    /\ term
    /\ ~udpConnClosed
    /\ udpConnClosed' = TRUE
    /\ UNCHANGED <<hostVars, listenTCP, listenUDP, queue, queueClosed, term, connWG,
                   wg, closerPc, acceptorPc, acceptG, listenerClosed, reader,
                   udpPc, dgram, udpOffered, lines, lineIdx,
                   InRecs, ThrottledRecs, ActiveTCPConnections,
                   offered, consumed, sentOnClosed, accepted, acceptErrs,
                   tcpLines, dgrams>>

\* lines 121, 133 and the loop test of 136: ReadFrom returns a datagram
UDPReadDatagram ==
    /\ udpPc = "read"
    /\ ~udpConnClosed
    /\ dgrams < MaxDgrams
    /\ dgrams' = dgrams + 1
    /\ \E d \in Datagrams :
         /\ dgram' = d
         /\ lines' = Split(d)
    /\ lineIdx' = 1
    /\ udpOffered' = <<>>
    /\ udpPc' = IF 1 <= LoopEnd(lines') THEN "push" ELSE "read"
    /\ UNCHANGED <<hostVars, listenTCP, listenUDP, queue, queueClosed, term, connWG,
                   wg, closerPc, acceptorPc, acceptG, listenerClosed, reader,
                   udpConnClosed,
                   InRecs, ThrottledRecs, ActiveTCPConnections,
                   offered, consumed, sentOnClosed, accepted, acceptErrs,
                   tcpLines>>

\* lines 136-138: one iteration of the loop over the lines
UDPPushLine ==
    /\ udpPc = "push"
    /\ SendToMainQ(lines[lineIdx])
    /\ udpOffered' = Append(udpOffered, lines[lineIdx])
    /\ lineIdx' = lineIdx + 1
    /\ udpPc' = IF lineIdx + 1 <= LoopEnd(lines) THEN "push" ELSE "read"
    /\ UNCHANGED <<hostVars, listenTCP, listenUDP, queueClosed, term, connWG,
                   wg, closerPc, acceptorPc, acceptG, listenerClosed, reader,
                   udpConnClosed, dgram, lines,
                   ActiveTCPConnections, consumed, accepted, acceptErrs,
                   tcpLines, dgrams>>

\* lines 122-126, 141-142: ReadFrom fails on the closed socket
UDPReadClosed ==
    /\ udpPc = "read"
    /\ udpConnClosed
    /\ udpPc' = "done"
    /\ connWG' = connWG - 1
    /\ UNCHANGED <<hostVars, listenTCP, listenUDP, queue, queueClosed, term,
                   wg, closerPc, acceptorPc, acceptG, listenerClosed, reader,
                   udpConnClosed, dgram, udpOffered, lines, lineIdx,
                   InRecs, ThrottledRecs, ActiveTCPConnections,
                   offered, consumed, sentOnClosed, accepted, acceptErrs,
                   tcpLines, dgrams>>

AcceptorNext ==
    \/ AcceptorTerm
    \/ AcceptorError
    \/ AcceptorConn
    \/ AcceptorWait

ListenNext ==
    \/ StopSignal
    \/ WorkerReceive
    \/ CloseQueue
    \/ AcceptConn
    \/ AcceptError
    \/ AcceptorNext
    \/ \E c \in Conns : ReaderLine(c) \/ ReaderEOF(c) \/ ReaderStop(c)
    \/ UDPStopper
    \/ UDPReadDatagram
    \/ UDPPushLine
    \/ UDPReadClosed

(***************************************************************************)
(* The host and its environment.                                           *)
(***************************************************************************)
SenderNext ==
    \/ StreamStart
    \/ StreamRange
    \/ MuxLock("sender")
    \/ TryToSendEnsure
    \/ EnsureSleep("sender")
    \/ EnsureIteration("sender")
    \/ TryToSendFresh
    \/ TryToSendWrite
    \/ TryToFlushStart("sender")
    \/ TryToFlushFlush("sender")
    \/ StreamWgDone
    \/ StreamCloseStop

FlusherNext ==
    \/ FlushTick
    \/ FlushStop
    \/ MuxLock("flusher")
    \/ EnsureSleep("flusher")
    \/ EnsureIteration("flusher")
    \/ TryToFlushStart("flusher")
    \/ TryToFlushFlush("flusher")

HostEnvNext ==
    \/ Push
    \/ CloseHostQueue
    \/ HostGoesDown
    \/ HostComesUp

Next == SenderNext \/ FlusherNext \/ HostEnvNext

\* the state of the listeners while the host is looked at alone
ListenNotStarted == Listen /\ ~listenTCP /\ ~listenUDP

\* the state of the host while the listeners are looked at alone
HostNotStarted ==
    /\ NewHost
    /\ hostUp
    /\ cfg = [MaxHostReconnectPeriodMs |-> U32Zero,
              HostReconnectPeriodDeltaMs |-> U32(0, 100),
              TCPOutBufFlushPeriodSec |-> 0,
              TCPOutConnectionRefreshPeriodSec |-> 0]

Init == NewHost /\ ListenNotStarted

\* one host, its sender and flusher, and what pushes to it
Spec == Init /\ [][Next]_vars

\* the same host, its reconnect fields set directly
LiteralInit == HostLiteral /\ ListenNotStarted

LiteralSpec == LiteralInit /\ [][Next]_vars

\* the listeners, the main queue and what drains it
ListenInit == Listen /\ HostNotStarted

ListenSpec == ListenInit /\ [][ListenNext]_vars

\* The listeners' goroutines keep running; a select with several ready
\* cases picks each of them sooner or later.  Nothing is assumed of the
\* clients, the workers or the stop signal.
FairListenSpec ==
    /\ ListenSpec
    /\ WF_vars(AcceptorNext)
    /\ WF_vars(AcceptError)
    /\ \A c \in Conns : WF_vars(ReaderStop(c))
    /\ WF_vars(UDPStopper)
    /\ WF_vars(UDPPushLine)
    /\ WF_vars(UDPReadClosed)
    /\ WF_vars(CloseQueue)

\* The sender and the flusher are goroutines that the scheduler keeps
\* running, and a goroutine waiting in Mutex.Lock is handed the mutex when it
\* is released often enough (sync.Mutex queues its waiters and has a
\* starvation mode).  Nothing is assumed of the environment: the downstream
\* host may stay away for ever and the queue may never be closed.
FairSpec ==
    /\ Spec
    /\ WF_vars(SenderNext)
    /\ WF_vars(FlusherNext)
    /\ SF_vars(MuxLock("sender"))
    /\ SF_vars(MuxLock("flusher"))

\* FairSpec, and the select of Flush takes its <-h.stop case sooner or later
\* when that case is ready every time the select is reached
FairShutdownSpec ==
    /\ FairSpec
    /\ SF_vars(FlushStop)

(***************************************************************************)
(* Properties of the host.                                                 *)
(***************************************************************************)
IsPrefix(a, b) == Len(a) <= Len(b) /\ SubSeq(b, 1, Len(a)) = a

InReconnectLoop(t) == pc[t] \in {"sleep", "connect"}

\* C1: Push is never blocked, the queue never holds more than
\* HostQueueSize records, and every pushed record is in the queue, was
\* taken by the sender, or was dropped and counted in throttled.
PushNeverBlocks ==
    /\ Len(Ch) <= HostQueueSize
    /\ pushed = throttled + Len(Ch) + dequeued
    /\ Len(enqueued) = Len(Ch) + dequeued
    /\ (~chClosed /\ pushed < MaxPush) => ENABLED Push

\* a record was dropped on a full queue while the sender held the mutex
\* inside the reconnect loop
PushDroppedDuringReconnect ==
    /\ mux = "sender"
    /\ InReconnectLoop("sender")
    /\ Len(Ch) = HostQueueSize
    /\ throttled >= 1

\* C3: the records written without error are, in order, a prefix of the
\* records accepted into the host queue.
WriteOrderIsEnqueueOrder == IsPrefix(written, enqueued)

\* two records were written in order around a dropped record, a write error
\* and a reconnect
OrderedWritesAcrossErrors ==
    /\ Len(written) >= 2
    /\ throttled >= 1
    /\ writeErrs >= 1
    /\ stateChanges >= 1

\* C4: state_changes counts the value changes of available, in both
\* directions.
StateChangesCountsEdges == stateChanges = edges

InFlight == IF r # 0 THEN 1 ELSE 0

\* C6: the sender holds a record from its dequeue until its write returned
\* no error; out_recs counts the records whose processing has completed,
\* once each.
SenderNeverAbandons ==
    /\ outRecs = Len(written)
    /\ dequeued = outRecs + InFlight
    /\ written = SubSeq(enqueued, 1, outRecs)
    /\ r # 0 => r = enqueued[dequeued]
    /\ r # 0 <=> pc["sender"] \in {"tts_lock", "tts_loop", "sleep", "connect",
                                   "tts_fresh", "tts_write"}
                  /\ (InReconnectLoop("sender") => ret["sender"] = "tts_fresh")

\* the sender is back on the queue after a write error, every dequeued
\* record written
RetriedAndWritten ==
    /\ pc["sender"] = "range"
    /\ writeErrs >= 1
    /\ outRecs >= 2
    /\ outRecs = dequeued

\* C7: if from some point on the host accepts every connection and every
\* write, then from some point on every accepted record has been written
\* and the sender waits on the queue (or has left it, the queue closed).
EventualDelivery ==
    (<>[]hostUp) =>
        <>[](outRecs = Len(enqueued) /\ pc["sender"] \in {"range", "done"})

\* the host came up after refusing connections, and the records accepted
\* meanwhile were all written
DeliveredAfterRefusal ==
    /\ hostUp
    /\ stateChanges >= 1
    /\ Len(enqueued) >= 2
    /\ outRecs = Len(enqueued)
    /\ pc["sender"] = "range"

\* C8: once the host queue is closed, Stream ends and signals its wait
\* group.
StreamTerminatesAfterClose == chClosed ~> (pc["sender"] = "done" /\ wgDone = 1)

\* C9: whenever a task is about to write or flush, after the refresh step,
\* the connection cell holds an open socket.
RefreshReopensConnection ==
    \A t \in Tasks : pc[t] \in {"tts_write", "tf_flush"} => Conn.Conn = "open"

(***************************************************************************)
(* Properties of the listeners.                                            *)
(***************************************************************************)
\* C2: a push to the main queue is never blocked; the queue never holds
\* more than MainQueueSize lines; every offered line was either enqueued and
\* counted in in_recs or dropped and counted in throttled_in.
MainQueuePushNeverBlocks ==
    /\ Len(queue) <= MainQueueSize
    /\ InRecs + ThrottledRecs = offered
    /\ InRecs = Len(queue) + consumed
    /\ ThrottledRecs = offered - (Len(queue) + consumed)
    /\ \A c \in Conns :
         (reader[c] = "run" /\ tcpLines < MaxTCPLines) => ENABLED ReaderLine(c)
    /\ udpPc = "push" => ENABLED UDPPushLine

\* lines of a TCP reader and of the UDP reader were dropped on a full queue
\* while the other kind of reader was running
DroppedFromBothListeners ==
    /\ ThrottledRecs >= 2
    /\ InRecs >= 1
    /\ tcpLines >= 1
    /\ udpPc = "push"
    /\ \E c \in Conns : reader[c] = "run"
    /\ Len(queue) = MainQueueSize

ListenersFinished ==
    /\ acceptorPc \in {"off", "done"}
    /\ \A c \in Conns : reader[c] # "run"
    /\ udpPc \in {"off", "done"}

\* C10: the main queue is closed once, only when the acceptor, every
\* reader and the UDP reader have finished, nothing is sent on it after
\* that, and it is closed eventually after the stop signal.
MainQueueClosedAfterListeners ==
    /\ [](/\ queueClosed <= 1
          /\ ~sentOnClosed
          /\ queueClosed = 1 => ListenersFinished)
    /\ (term ~> queueClosed = 1)

\* the queue was closed after a stop signal that found a TCP reader and the
\* UDP reader at work
ClosedAfterBusyListeners ==
    /\ queueClosed = 1
    /\ term
    /\ \E c \in Conns : reader[c] = "done"
    /\ udpPc = "done"
    /\ tcpLines >= 1
    /\ dgrams >= 1
    /\ offered >= 2

\* C11: active_tcp_connections is the number of accepted connections whose
\* reader has not finished; failed Accept calls and the closing of the
\* listener do not count.
ActiveCountsLiveConnections ==
    ActiveTCPConnections =
        accepted - Cardinality({c \in Conns : reader[c] = "done"})

\* the positions of the LF bytes of d
LFPositions(d) == {i \in 1 .. Len(d) : d[i] = LF}

\* the position of the k-th LF of d
LFPos(d, k) ==
    CHOOSE i \in LFPositions(d) :
        Cardinality({j \in LFPositions(d) : j <= i}) = k

\* the LF-terminated segments of d, in their order of appearance
Segments(d) ==
    [k \in 1 .. Cardinality(LFPositions(d)) |->
        SubSeq(d, (IF k = 1 THEN 0 ELSE LFPos(d, k - 1)) + 1, LFPos(d, k) - 1)]

\* C12: the lines of a datagram handed to sendToMainQ are its LF-terminated
\* segments, in order; what follows the last LF is never handed over, and
\* a datagram without LF hands over nothing.
DatagramOffersCompleteLines ==
    /\ IsPrefix(udpOffered, Segments(dgram))
    /\ udpPc = "push" => /\ Len(udpOffered) < Len(Segments(dgram))
                         /\ lines[lineIdx] = Segments(dgram)[Len(udpOffered) + 1]
    /\ udpPc # "push" => udpOffered = Segments(dgram)

\* a datagram with two complete lines and a fragment after the last LF has
\* been processed
TwoLinesAndFragmentProcessed ==
    /\ dgrams >= 1
    /\ udpPc = "read"
    /\ Len(udpOffered) = 2
    /\ dgram[Len(dgram)] # LF

\* min(M, 2*w + D) for the M and D of the configuration (no value of Cfgs
\* makes 2*w + D leave the uint32 range)
ConfiguredNextWait(w) ==
    LET n == U32DoublePlus(w, cfg.HostReconnectPeriodDeltaMs)
    IN  IF U32Le(cfg.MaxHostReconnectPeriodMs, n)
          THEN cfg.MaxHostReconnectPeriodMs ELSE n

\* C13: in a reconnect run of a host built by NewHost the first dial is made
\* after a wait of 0 and each later wait is min(M, 2*w + D) of the wait w
\* before it, M and D being max_host_reconnect_period_ms and
\* host_reconnect_period_delta_ms of the configuration.
BackoffFollowsConfiguration ==
    \A t \in Tasks :
        pc[t] = "sleep" =>
            reconnectWait[t] = IF attemptCount[t] = 1
                                 THEN U32Zero
                                 ELSE ConfiguredNextWait(slept[t])

\* C14: no task holds Conn.Mux while it sleeps a non-zero reconnect wait or
\* waits to receive from the host queue.
MuxNotHeldAcrossSleep ==
    \A t \in Tasks :
        \/ pc[t] = "sleep" /\ reconnectWait[t] # U32Zero
        \/ t = "sender" /\ pc[t] = "range"
        => mux # t

\* the places of a task between Lock and Unlock, where tryToSend,
\* ensureConnection, keepConnectionFresh and tryToFlushIfNecessary read and
\* write h.Conn
CellSection == {"tts_loop", "sleep", "connect", "tts_fresh", "tts_write",
                "tf_start", "tf_flush"}

\* C15: a task that is in a section touching the connection cell holds
\* Conn.Mux, the sender and the flusher are never both in such a section,
\* and the cell only changes in a step of the task holding the mutex.
ConnCellUnderMux ==
    /\ [](/\ \A t \in Tasks : pc[t] \in CellSection => mux = t
          /\ ~(pc["sender"] \in CellSection /\ pc["flusher"] \in CellSection))
    /\ [][Conn' # Conn => mux \in Tasks /\ pc[mux] \in CellSection]_vars

\* the flusher is flushing the buffer while the sender, holding a record,
\* waits for the mutex
FlusherInsideSenderWaiting ==
    /\ pc["flusher"] = "tf_flush"
    /\ mux = "flusher"
    /\ pc["sender"] = "tts_lock"
    /\ r # 0
    /\ Conn.W.n >= 1

\* how far the sender is in Stream's tail: 0 while it is in the range loop
ShutdownRank ==
    CASE pc["sender"] = "fin_lock" -> 1
      [] pc["sender"] = "tf_start" -> 2
      [] InReconnectLoop("sender") /\ ret["sender"] = "tf_flush" -> 3
      [] pc["sender"] = "tf_flush" -> 4
      [] pc["sender"] = "wg_done" -> 5
      [] pc["sender"] = "close_stop" -> 6
      [] pc["sender"] = "done" -> 7
      [] OTHER -> 0

\* C16: the sender leaves the range loop only with the queue closed and
\* every accepted record written in order; it then makes one final
\* flush-if-necessary holding Conn.Mux, releases the mutex, signals the wait
\* group and closes h.stop, in this order and each once; the flusher ends
\* only after h.stop is closed, and does end then.
ShutdownOrder ==
    /\ [](/\ ShutdownRank >= 1 => chClosed /\ Ch = <<>> /\ written = enqueued
          /\ ShutdownRank \in 2 .. 4 <=> (mux = "sender" /\ r = 0)
          /\ wgDone = (IF ShutdownRank >= 6 THEN 1 ELSE 0)
          /\ stop <=> ShutdownRank = 7
          /\ pc["flusher"] = "done" => stop)
    /\ [][/\ ShutdownRank' >= ShutdownRank
          /\ ShutdownRank' = 2 /\ ShutdownRank # 2 => ShutdownRank = 1
          /\ ShutdownRank = 2 /\ pc'["sender"] # pc["sender"] => ShutdownRank' > 2
          /\ stop' # stop => ~stop /\ ShutdownRank = 6]_vars
    /\ (stop ~> pc["flusher"] \in {"off", "done"})

\* the shutdown of a host with a running flusher is complete: two records
\* written, the buffer flushed, the stop signal closed, the flusher ended
ShutdownComplete ==
    /\ stop
    /\ pc["sender"] = "done"
    /\ pc["flusher"] = "done"
    /\ Len(written) >= 2
    /\ Conn.W.some /\ Conn.W.n = 0

hostCounters == <<outRecs, throttled, stateChanges, oldConnectionRefresh>>

AvailableIsLastDialOutcome ==
    /\ [][\A t \in Tasks :
            pc[t] = "connect" /\ pc'[t] # "connect" =>
                /\ Available' = hostUp
                /\ Available' = (Conn'.Conn # "nil")]_vars
    /\ [][writeErrs' # writeErrs => Available' = Available]_vars

\* the second dial of a reconnect run has failed as well, and the host had
\* been reached before
LaterDialFailed ==
    /\ pc["sender"] = "sleep"
    /\ slept["sender"] # U32Zero
    /\ ~Available
    /\ writeErrs >= 1

\* C19: with a flush period other than 0 and a downstream host that is
\* always there, no write and no flush fails, and records sitting in the
\* buffered writer are flushed to the socket sooner or later.
BufferedRecordsReachSocket ==
    (TCPOutBufFlushPeriodSec # 0 /\ []hostUp) =>
        /\ [](writeErrs = 0 /\ flushErrs = 0)
        /\ (Conn.W.some /\ Conn.W.n >= 1) ~> (Conn.W.some /\ Conn.W.n = 0)

\* C20: while Conn.Mux is free the socket is nil exactly when the writer is
\* nil; where the sender sets the write deadline and writes, and where
\* either task calls Flush, socket and writer are both there, so that no
\* nil one is used; and flush-if-necessary never finds buffered records
\* with a nil socket.
ConnCellConsistent ==
    /\ mux = "free" => (Conn.Conn = "nil" <=> ~Conn.W.some)
    /\ \A t \in Tasks :
         /\ pc[t] \in {"tts_write", "tf_flush"} => Conn.Conn # "nil" /\ Conn.W.some
         /\ pc[t] = "tf_start" => ~(Conn.W.some /\ Conn.W.n # 0 /\ Conn.Conn = "nil")
         /\ pc[t] # "panic"

\* the mutex is free and the cell empty after a failed flush, the sender
\* about to take the mutex for its next record
EmptyCellAfterFailedFlush ==
    /\ mux = "free"
    /\ Conn = NilConnection
    /\ flushErrs >= 1
    /\ Len(written) >= 1
    /\ pc["sender"] = "tts_lock"

====
